---- MODULE Spec2Model ----
(***************************************************************************)
(* copybridge-server: password-protected clipboards.                       *)
(*                                                                         *)
(* The repository holds two revisions of the server:                       *)
(*   - the id-keyed one   (internal/server/routes.go + the id-keyed        *)
(*     database package, unnamed/part_001);                                *)
(*   - the name-keyed one (unnamed/part_002 routes + internal/database/    *)
(*     database.go).                                                       *)
(* Both share the clipboard package (unnamed/part_000).  The variable      *)
(* `build` says which revision is running.                                 *)
(*                                                                         *)
(* Cryptography is modelled symbolically (perfect cryptography):           *)
(*   - rand.Reader hands out byte strings that never repeat (a counter);   *)
(*     a read may also fail with an error;                                 *)
(*   - scrypt is injective in (password, salt);                            *)
(*   - AES-GCM Open succeeds exactly on what Seal produced under the same  *)
(*     key and nonce;                                                      *)
(*   - bcrypt verifies exactly the password that was hashed, of which it   *)
(*     reads the first 72 bytes.                                           *)
(***************************************************************************)
EXTENDS Integers, Sequences, FiniteSets, TLC

VARIABLES
    build,       \* "id" or "name": the revision of the server that runs
    clipboards,  \* the clipboards table: key -> row
    seq,         \* sqlite_sequence of the AUTOINCREMENT id column (id build)
    rnd,         \* number of byte strings rand.Reader has handed out
    last,        \* the last request handled and its response
    hist,        \* per stored record: what was written to it (history)
    issued,      \* the ids Insert has assigned so far (history)
    pending,     \* the PUT handler that has read its row and not yet updated it
    crec,        \* crypto bench: the Clipboard under test
    clog         \* crypto bench: the last Encrypt/Decrypt call and its result

vars ==
    <<build, clipboards, seq, rnd, last, hist, issued, pending, crec, clog>>

----------------------------------------------------------------------------
(* Bounds *)

\* rand.Reader hands out at most MaxRand byte strings in a run
MaxRand == 4
\* the id-keyed store performs at most MaxInserts inserts in a run
MaxInserts == 1
\* the id-keyed store performs at most MaxIds inserts in a run of SpecIds
MaxIds == 2

(* Inputs *)
Passwords == {"p1", "p2"}
\* "a" is not valid base64; "QQ==" is (it decodes to one byte)
Plaintexts == {"a", "QQ=="}
Base64Texts == {"", "QQ=="}
Names == {"n1"}
DataTypes == {"text/plain"}

(* Program constants *)
SaltLen == 16
NonceSize == 12
ScryptN == 32768
ScryptR == 8
ScryptP == 1
\* bcrypt keys Blowfish with the first 72 bytes of the password
BcryptMaxLen == 72
FirstSeq == 99999

StatusOK == 200
StatusNoContent == 204
StatusBadRequest == 400
StatusUnauthorized == 401
StatusNotFound == 404
StatusConflict == 409
StatusInternalServerError == 500

----------------------------------------------------------------------------
(* Byte strings and their base64 text *)

\* a byte string: len bytes, id says which (0: the empty string)
EmptyBytes == [id |-> 0, len |-> 0]
RandBytes(n, l) == [id |-> n, len |-> l]

\* base64.StdEncoding.EncodeToString for salt and nonce
EncodeToString(b) == [valid |-> TRUE, raw |-> b]
\* the empty Go string "" (base64 of no bytes)
EmptyString == EncodeToString(EmptyBytes)
\* base64.StdEncoding.DecodeString: an error on text that is not base64
DecodeString(s) == [err |-> ~s.valid, raw |-> s.raw]

\* the key of no cipher
NoKey == [password |-> "", salt |-> EmptyBytes]
\* bytes that no Seal call produced
Garbage == [sealed |-> FALSE, key |-> NoKey, nonce |-> EmptyBytes, pt |-> ""]

\* the Data field: a plain text s, or the base64 text of ciphertext bytes
Text(s) == [kind |-> "text", txt |-> s, ct |-> Garbage]
EncodeData(ct) == [kind |-> "b64", txt |-> "", ct |-> ct]
\* base64.StdEncoding.DecodeString(c.Data)
DecodeData(d) ==
    IF d.kind = "b64" THEN [err |-> FALSE, ct |-> d.ct]
    ELSE IF d.txt \in Base64Texts THEN [err |-> FALSE, ct |-> Garbage]
    ELSE [err |-> TRUE, ct |-> Garbage]

----------------------------------------------------------------------------
(* The clipboard package (unnamed/part_000) *)

\* the empty PasswordHash string
EmptyHash == [password |-> "", bsalt |-> 0]

\* the zero value of the Clipboard struct
ZeroClipboard ==
    [Id |-> 0, Name |-> "", DataType |-> "", Data |-> Text(""),
     IsEncrypted |-> FALSE, PasswordHash |-> EmptyHash,
     Salt |-> EmptyString, Nonce |-> EmptyString]

NewClipboard(name, dataType, data) ==
    [ZeroClipboard EXCEPT !.Name = name, !.DataType = dataType,
                          !.Data = Text(data), !.IsEncrypted = FALSE]

\* the bytes of a password that bcrypt reads: the Blowfish key schedule
\* takes BcryptMaxLen bytes and ignores the rest
BcryptKey(password) ==
    IF Len(password) > BcryptMaxLen THEN SubSeq(password, 1, BcryptMaxLen)
    ELSE password

\* bcrypt.GenerateFromPassword with the n-th salt drawn from rand.Reader
HashPassword(password, n) == [password |-> BcryptKey(password), bsalt |-> n]

\* a faulty Authenticate: any password passes once a hash is stored
AuthenticateAnyPassword(c, password) == c.PasswordHash.bsalt # 0

\* bcrypt.CompareHashAndPassword(...) == nil; an empty hash matches nothing
Authenticate(c, password) ==
    /\ c.PasswordHash.bsalt # 0
    /\ c.PasswordHash.password = BcryptKey(password)

\* scrypt.Key fails on bad cost parameters only: N a power of two above 1,
\* r*p below 2^30.  The salt is not inspected: an empty salt derives a key.
IsPow2(n) == \E e \in 1..20 : n = 2^e
deriveKey(password, salt) ==
    [err |-> ~(IsPow2(ScryptN) /\ ScryptR * ScryptP < 2^30),
     key |-> [password |-> password, salt |-> salt]]

\* aesgcm.Seal(nil, nonce, plaintext, nil)
Seal(key, nonce, pt) == [sealed |-> TRUE, key |-> key, nonce |-> nonce, pt |-> pt]

\* aesgcm.Open(nil, nonce, ciphertext, nil): panics on a nonce of the wrong
\* length, fails unless the bytes were sealed under this key and nonce
Open(key, nonce, ct) ==
    IF nonce.len # NonceSize THEN [panic |-> TRUE, err |-> FALSE, pt |-> ""]
    ELSE IF ct.sealed /\ ct.key = key /\ ct.nonce = nonce
         THEN [panic |-> FALSE, err |-> FALSE, pt |-> ct.pt]
         ELSE [panic |-> FALSE, err |-> TRUE, pt |-> ""]

(* error values *)
Nil == "nil"
ErrRand == "unexpected EOF"
ErrBase64 == "illegal base64 data"
ErrScrypt == "scrypt: parameters are invalid"
ErrOpen == "cipher: message authentication failed"
Panic == "panic: crypto/cipher: incorrect nonce length given to GCM"
FailModes == {"none", "hash", "salt", "nonce"}
\* rand.Reader is read only on behalf of a request that carries a password
\* and a body; a POST reads it only when the body asks for encryption
FailuresOf(auth, body) == IF auth.ok /\ body.ok THEN FailModes ELSE {"none"}
PostFailuresOf(auth, body) ==
    IF body.IsEncrypted THEN FailuresOf(auth, body) ELSE {"none"}

\* what the log of the last request keeps of its body
Logged(body) == [ok |-> body.ok, Id |-> body.Id, IsEncrypted |-> body.IsEncrypted]

\* a faulty Encrypt: seals under a fresh nonce but does not store it
EncryptDropsNonce(c, password, n, fail) ==
    LET needSalt == c.Salt = EmptyString
        n1 == IF needSalt THEN n + 1 ELSE n
        c1 == IF needSalt
              THEN [c EXCEPT !.Salt = EncodeToString(RandBytes(n1, SaltLen))]
              ELSE c
        k == deriveKey(password, DecodeString(c1.Salt).raw)
        n2 == n1 + 1
        ciphertext == Seal(k.key, RandBytes(n2, NonceSize), c1.Data.txt)
    IN  IF needSalt /\ fail = "salt" THEN [c |-> c, err |-> ErrRand, n |-> n]
        ELSE IF fail = "nonce" THEN [c |-> c1, err |-> ErrRand, n |-> n1]
        ELSE [c |-> [c1 EXCEPT !.Data = EncodeData(ciphertext),
                               !.IsEncrypted = TRUE],
              err |-> Nil, n |-> n2]

\* a faulty Encrypt: keeps the record's nonce, as it keeps its salt
EncryptReusesNonce(c, password, n, fail) ==
    LET needSalt == c.Salt = EmptyString
        n1 == IF needSalt THEN n + 1 ELSE n
        c1 == IF needSalt
              THEN [c EXCEPT !.Salt = EncodeToString(RandBytes(n1, SaltLen))]
              ELSE c
        k == deriveKey(password, DecodeString(c1.Salt).raw)
        needNonce == c.Nonce = EmptyString
        n2 == IF needNonce THEN n1 + 1 ELSE n1
        nonce == IF needNonce THEN RandBytes(n2, NonceSize)
                 ELSE DecodeString(c.Nonce).raw
        ciphertext == Seal(k.key, nonce, c1.Data.txt)
    IN  IF needSalt /\ fail = "salt" THEN [c |-> c, err |-> ErrRand, n |-> n]
        ELSE IF needNonce /\ fail = "nonce"
        THEN [c |-> c1, err |-> ErrRand, n |-> n1]
        ELSE [c |-> [c1 EXCEPT !.Nonce = EncodeToString(nonce),
                               !.Data = EncodeData(ciphertext),
                               !.IsEncrypted = TRUE],
              err |-> Nil, n |-> n2]

\* Clipboard.Encrypt.  n: byte strings drawn so far; fail: the read of
\* rand.Reader that fails, if any.  Data is a plain text whenever the
\* handlers call Encrypt.  aes.NewCipher and cipher.NewGCM cannot fail on
\* the 32-byte key of deriveKey.
Encrypt(c, password, n, fail) ==
    LET needSalt == c.Salt = EmptyString
        n1 == IF needSalt THEN n + 1 ELSE n
        c1 == IF needSalt
              THEN [c EXCEPT !.Salt = EncodeToString(RandBytes(n1, SaltLen))]
              ELSE c
        decodedSalt == DecodeString(c1.Salt)
        k == deriveKey(password, decodedSalt.raw)
        n2 == n1 + 1
        nonce == RandBytes(n2, NonceSize)
        ciphertext == Seal(k.key, nonce, c1.Data.txt)
    IN  IF needSalt /\ fail = "salt" THEN [c |-> c, err |-> ErrRand, n |-> n]
        ELSE IF decodedSalt.err THEN [c |-> c1, err |-> ErrBase64, n |-> n1]
        ELSE IF k.err THEN [c |-> c1, err |-> ErrScrypt, n |-> n1]
        ELSE IF fail = "nonce" THEN [c |-> c1, err |-> ErrRand, n |-> n1]
        ELSE [c |-> [c1 EXCEPT !.Nonce = EncodeToString(nonce),
                               !.Data = EncodeData(ciphertext),
                               !.IsEncrypted = TRUE],
              err |-> Nil, n |-> n2]

\* a faulty Decrypt: clears IsEncrypted before the ciphertext is opened
DecryptClearsFirst(c, password) ==
    LET k == deriveKey(password, DecodeString(c.Salt).raw)
        decodedNonce == DecodeString(c.Nonce)
        decodedCiphertext == DecodeData(c.Data)
        o == Open(k.key, decodedNonce.raw, decodedCiphertext.ct)
        c0 == [c EXCEPT !.IsEncrypted = FALSE]
    IN  IF decodedCiphertext.err THEN [c |-> c0, err |-> ErrBase64]
        ELSE IF o.panic THEN [c |-> c0, err |-> Panic]
        ELSE IF o.err THEN [c |-> c0, err |-> ErrOpen]
        ELSE [c |-> [c0 EXCEPT !.Data = Text(o.pt)], err |-> Nil]

\* Clipboard.Decrypt
Decrypt(c, password) ==
    LET decodedSalt == DecodeString(c.Salt)
        k == deriveKey(password, decodedSalt.raw)
        decodedNonce == DecodeString(c.Nonce)
        decodedCiphertext == DecodeData(c.Data)
        o == Open(k.key, decodedNonce.raw, decodedCiphertext.ct)
    IN  IF decodedSalt.err THEN [c |-> c, err |-> ErrBase64]
        ELSE IF k.err THEN [c |-> c, err |-> ErrScrypt]
        ELSE IF decodedNonce.err THEN [c |-> c, err |-> ErrBase64]
        ELSE IF decodedCiphertext.err THEN [c |-> c, err |-> ErrBase64]
        ELSE IF o.panic THEN [c |-> c, err |-> Panic]
        ELSE IF o.err THEN [c |-> c, err |-> ErrOpen]
        ELSE [c |-> [c EXCEPT !.Data = Text(o.pt), !.IsEncrypted = FALSE],
              err |-> Nil]

----------------------------------------------------------------------------
(* Requests *)

\* r.BasicAuth(): ok says whether the request carries basic credentials
NoAuth == [ok |-> FALSE, password |-> ""]
Auths == {NoAuth} \cup {[ok |-> TRUE, password |-> p] : p \in Passwords}

\* the {id} URL parameter and strconv.Atoi of it
UrlIds ==
    {[num |-> TRUE, val |-> FirstSeq + i] : i \in 1..MaxInserts}
        \cup {[num |-> FALSE, val |-> 0]}
Atoi(p) == [err |-> ~p.num, val |-> p.val]

\* a request body; ok says whether it decodes as JSON.  PasswordHash, Salt
\* and Nonce carry the tag json:"-" and are never read from a body.
BadBody ==
    [ok |-> FALSE, Id |-> 0, Name |-> "", DataType |-> "", Data |-> "",
     IsEncrypted |-> FALSE]
Bodies(ids, names) ==
    {BadBody} \cup
    [ok : {TRUE}, Id : ids, Name : names, DataType : DataTypes,
     Data : Plaintexts, IsEncrypted : BOOLEAN]

\* json.NewDecoder(r.Body).Decode(&cNew)
Decode(body) ==
    [ZeroClipboard EXCEPT !.Id = body.Id, !.Name = body.Name,
                          !.DataType = body.DataType,
                          !.Data = Text(body.Data),
                          !.IsEncrypted = body.IsEncrypted]

\* json.Marshal(c): what a response shows of a Clipboard
Marshal(c) ==
    [Id |-> c.Id, Name |-> c.Name, DataType |-> c.DataType, Data |-> c.Data,
     IsEncrypted |-> c.IsEncrypted]

\* the outcome of a handler: the response, the store after it, the crypto
\* calls it made, the error of its Encrypt/Decrypt call and the Clipboard
\* it held at the end
Outcome(status, msg, c, db, sq, n, calls, cerr) ==
    [status |-> status, msg |-> msg,
     json |-> IF status = StatusOK THEN Marshal(c) ELSE Marshal(ZeroClipboard),
     c |-> c, db |-> db, seq |-> sq, n |-> n, calls |-> calls, cerr |-> cerr]

\* a panic in a handler: net/http recovers it and drops the connection
Aborted(msg, c, db, sq, n, calls) ==
    [status |-> 0, msg |-> msg, json |-> Marshal(ZeroClipboard),
     c |-> c, db |-> db, seq |-> sq, n |-> n, calls |-> calls, cerr |-> msg]

NotCalled == "not called"

----------------------------------------------------------------------------
(* The id-keyed database package (unnamed/part_001) *)

\* a nullable TEXT column, as sql.NullString reads it
NullHash == [Valid |-> FALSE, String |-> EmptyHash]
NullText == [Valid |-> FALSE, String |-> EmptyString]
Column(s) == [Valid |-> TRUE, String |-> s]

\* the row of the INSERT statement that Insert chooses
InsertedRow(c) ==
    IF c.IsEncrypted
    THEN [name |-> c.Name, type |-> c.DataType, data |-> c.Data,
          is_encrypted |-> c.IsEncrypted,
          password_hash |-> Column(c.PasswordHash),
          salt |-> Column(c.Salt), nonce |-> Column(c.Nonce)]
    ELSE [name |-> c.Name, type |-> c.DataType, data |-> c.Data,
          is_encrypted |-> FALSE,
          password_hash |-> NullHash, salt |-> NullText, nonce |-> NullText]

\* the Clipboard that Get scans from a row
Scanned(id, row) ==
    [Id |-> id, Name |-> row.name, DataType |-> row.type, Data |-> row.data,
     IsEncrypted |-> row.is_encrypted,
     PasswordHash |-> IF row.is_encrypted THEN row.password_hash.String
                      ELSE EmptyHash,
     Salt |-> IF row.is_encrypted THEN row.salt.String ELSE EmptyString,
     Nonce |-> IF row.is_encrypted THEN row.nonce.String ELSE EmptyString]

\* a faulty Insert: the id column without AUTOINCREMENT, where the new rowid
\* is one more than the largest rowid in the table
InsertAfterLargestRow(db, sq, c) ==
    LET id == IF DOMAIN db = {} THEN FirstSeq + 1
              ELSE (CHOOSE m \in DOMAIN db : \A k \in DOMAIN db : k <= m) + 1
    IN  [db |-> (id :> InsertedRow(c)) @@ db, seq |-> id,
         c |-> [c EXCEPT !.Id = id]]

\* service.Insert: AUTOINCREMENT hands out the id after sqlite_sequence
Insert(db, sq, c) ==
    LET id == sq + 1
    IN  [db |-> (id :> InsertedRow(c)) @@ db, seq |-> id,
         c |-> [c EXCEPT !.Id = id]]

\* service.Get: (nil, nil) when no row has the id
Get(db, id) ==
    IF id \in DOMAIN db
    THEN [found |-> TRUE, c |-> Scanned(id, db[id])]
    ELSE [found |-> FALSE, c |-> ZeroClipboard]

\* a faulty Update: the new nonce is not written
UpdateKeepsNonce(db, c) ==
    IF c.Id \in DOMAIN db
    THEN [db EXCEPT ![c.Id] = [@ EXCEPT !.name = c.Name, !.type = c.DataType,
                                        !.data = c.Data]]
    ELSE db

\* service.Update: SET name, type, data, nonce WHERE id
Update(db, c) ==
    IF c.Id \in DOMAIN db
    THEN [db EXCEPT ![c.Id] = [@ EXCEPT !.name = c.Name, !.type = c.DataType,
                                        !.data = c.Data,
                                        !.nonce = Column(c.Nonce)]]
    ELSE db

\* service.Delete
Delete(db, id) == [k \in DOMAIN db \ {id} |-> db[k]]

----------------------------------------------------------------------------
(* The id-keyed handlers (internal/server/routes.go) *)

\* a faulty GET: the decrypted Clipboard is written back to its row
GetHandlerWritesBack(db, sq, n, id, auth) ==
    LET a == Atoi(id)
        g == Get(db, a.val)
        c == g.c
        d == Decrypt(c, auth.password)
    IN  IF a.err
        THEN Outcome(StatusBadRequest, "invalid clipboard id", ZeroClipboard,
                     db, sq, n, {}, NotCalled)
        ELSE IF ~g.found
        THEN Outcome(StatusNotFound, "clipboard not found", ZeroClipboard,
                     db, sq, n, {}, NotCalled)
        ELSE IF c.IsEncrypted
        THEN IF ~auth.ok \/ ~Authenticate(c, auth.password)
             THEN Outcome(StatusUnauthorized, "unauthorized", c, db, sq, n,
                          {"Authenticate"}, NotCalled)
             ELSE IF d.err # Nil
             THEN Outcome(StatusInternalServerError,
                          "clipboard decryption failed", d.c, db, sq, n,
                          {"Authenticate", "Decrypt"}, d.err)
             ELSE Outcome(StatusOK, "", d.c, Update(db, d.c), sq, n,
                          {"Authenticate", "Decrypt"}, d.err)
        ELSE Outcome(StatusOK, "", c, db, sq, n, {}, NotCalled)

GetHandler(db, sq, n, id, auth) ==
    LET a == Atoi(id)
        g == Get(db, a.val)
        c == g.c
        d == Decrypt(c, auth.password)
    IN  IF a.err
        THEN Outcome(StatusBadRequest, "invalid clipboard id", ZeroClipboard,
                     db, sq, n, {}, NotCalled)
        ELSE IF ~g.found
        THEN Outcome(StatusNotFound, "clipboard not found", ZeroClipboard,
                     db, sq, n, {}, NotCalled)
        ELSE IF c.IsEncrypted
        THEN IF ~auth.ok
             THEN Outcome(StatusUnauthorized, "unauthorized", c, db, sq, n,
                          {}, NotCalled)
             ELSE IF ~Authenticate(c, auth.password)
             THEN Outcome(StatusUnauthorized, "unauthorized", c, db, sq, n,
                          {"Authenticate"}, NotCalled)
             ELSE IF d.err = Panic
             THEN Aborted(Panic, c, db, sq, n, {"Authenticate", "Decrypt"})
             ELSE IF d.err # Nil
             THEN Outcome(StatusInternalServerError,
                          "clipboard decryption failed", d.c, db, sq, n,
                          {"Authenticate", "Decrypt"}, d.err)
             ELSE Outcome(StatusOK, "", d.c, db, sq, n,
                          {"Authenticate", "Decrypt"}, d.err)
        ELSE Outcome(StatusOK, "", c, db, sq, n, {}, NotCalled)

PostHandler(db, sq, n, body, auth, fail) ==
    LET cNew == Decode(body)
        g == Get(db, cNew.Id)
        n1 == n + 1
        hashed == [cNew EXCEPT !.PasswordHash = HashPassword(auth.password, n1)]
        e == Encrypt(hashed, auth.password, n1, fail)
        plain == Insert(db, sq, cNew)
        protected == Insert(db, sq, e.c)
    IN  IF ~body.ok
        THEN Outcome(StatusBadRequest, "invalid request body", ZeroClipboard,
                     db, sq, n, {}, NotCalled)
        ELSE IF g.found
        THEN Outcome(StatusConflict, "clipboard already exists", cNew,
                     db, sq, n, {}, NotCalled)
        ELSE IF cNew.IsEncrypted
        THEN IF ~auth.ok
             THEN Outcome(StatusUnauthorized, "unauthorized", cNew, db, sq, n,
                          {}, NotCalled)
             ELSE IF fail = "hash"
             THEN Outcome(StatusInternalServerError, "password hashing failed",
                          cNew, db, sq, n, {"HashPassword"}, NotCalled)
             ELSE IF e.err # Nil
             THEN Outcome(StatusInternalServerError,
                          "clipboard encryption failed", e.c, db, sq, e.n,
                          {"HashPassword", "Encrypt"}, e.err)
             ELSE Outcome(StatusOK, "", protected.c, protected.db,
                          protected.seq, e.n,
                          {"HashPassword", "Encrypt", "Insert"}, e.err)
        ELSE Outcome(StatusOK, "", plain.c, plain.db, plain.seq, n,
                     {"Insert"}, NotCalled)

PutHandler(db, sq, n, id, body, auth, fail) ==
    LET a == Atoi(id)
        g == Get(db, a.val)
        cNew == Decode(body)
        c == [g.c EXCEPT !.DataType = cNew.DataType, !.Data = cNew.Data]
        e == Encrypt(c, auth.password, n, fail)
    IN  IF a.err
        THEN Outcome(StatusBadRequest, "invalid clipboard id", ZeroClipboard,
                     db, sq, n, {}, NotCalled)
        ELSE IF ~g.found
        THEN Outcome(StatusNotFound, "clipboard not found", ZeroClipboard,
                     db, sq, n, {}, NotCalled)
        ELSE IF ~body.ok
        THEN Outcome(StatusBadRequest, "invalid request body", g.c,
                     db, sq, n, {}, NotCalled)
        ELSE IF c.IsEncrypted
        THEN IF ~auth.ok
             THEN Outcome(StatusUnauthorized, "unauthorized", c, db, sq, n,
                          {}, NotCalled)
             ELSE IF ~Authenticate(c, auth.password)
             THEN Outcome(StatusUnauthorized, "unauthorized", c, db, sq, n,
                          {"Authenticate"}, NotCalled)
             ELSE IF e.err # Nil
             THEN Outcome(StatusInternalServerError,
                          "clipboard encryption failed", e.c, db, sq, e.n,
                          {"Authenticate", "Encrypt"}, e.err)
             ELSE Outcome(StatusOK, "", e.c, Update(db, e.c), sq, e.n,
                          {"Authenticate", "Encrypt", "Update"}, e.err)
        ELSE Outcome(StatusOK, "", c, Update(db, c), sq, n, {"Update"},
                     NotCalled)

DeleteHandler(db, sq, n, id, auth) ==
    LET a == Atoi(id)
        g == Get(db, a.val)
        c == g.c
    IN  IF a.err
        THEN Outcome(StatusBadRequest, "invalid clipboard id", ZeroClipboard,
                     db, sq, n, {}, NotCalled)
        ELSE IF ~g.found
        THEN Outcome(StatusNotFound, "clipboard not found", ZeroClipboard,
                     db, sq, n, {}, NotCalled)
        ELSE IF c.IsEncrypted /\ ~auth.ok
        THEN Outcome(StatusUnauthorized, "unauthorized", c, db, sq, n,
                     {}, NotCalled)
        ELSE IF c.IsEncrypted /\ ~Authenticate(c, auth.password)
        THEN Outcome(StatusUnauthorized, "unauthorized", c, db, sq, n,
                     {"Authenticate"}, NotCalled)
        ELSE Outcome(StatusNoContent, "", c, Delete(db, a.val), sq, n,
                     IF c.IsEncrypted THEN {"Authenticate", "Delete"}
                     ELSE {"Delete"}, NotCalled)

----------------------------------------------------------------------------
(* The name-keyed database package (internal/database/database.go) *)

\* service.Insert: name is the PRIMARY KEY
InsertByName(db, c) ==
    IF c.Name \in DOMAIN db
    THEN [err |-> TRUE, db |-> db]
    ELSE [err |-> FALSE, db |-> (c.Name :> InsertedRow(c)) @@ db]

\* service.Get
GetByName(db, name) ==
    IF name \in DOMAIN db
    THEN [found |-> TRUE, c |-> Scanned(0, db[name])]
    ELSE [found |-> FALSE, c |-> ZeroClipboard]

\* service.Update: SET type, data, is_encrypted, password_hash, salt, nonce
\* WHERE name
UpdateByName(db, c) ==
    IF c.Name \in DOMAIN db
    THEN [db EXCEPT ![c.Name] =
            [@ EXCEPT !.type = c.DataType, !.data = c.Data,
                      !.is_encrypted = c.IsEncrypted,
                      !.password_hash = Column(c.PasswordHash),
                      !.salt = Column(c.Salt), !.nonce = Column(c.Nonce)]]
    ELSE db

\* service.Delete
DeleteByName(db, name) == [k \in DOMAIN db \ {name} |-> db[k]]

----------------------------------------------------------------------------
(* The name-keyed handlers (unnamed/part_002) *)

GetHandlerByName(db, sq, n, name, auth) ==
    LET g == GetByName(db, name)
        c == g.c
        d == Decrypt(c, auth.password)
    IN  IF ~g.found
        THEN Outcome(StatusNotFound, "clipboard not found", ZeroClipboard,
                     db, sq, n, {}, NotCalled)
        ELSE IF c.IsEncrypted
        THEN IF ~auth.ok
             THEN Outcome(StatusUnauthorized, "unauthorized", c, db, sq, n,
                          {}, NotCalled)
             ELSE IF ~Authenticate(c, auth.password)
             THEN Outcome(StatusUnauthorized, "unauthorized", c, db, sq, n,
                          {"Authenticate"}, NotCalled)
             ELSE IF d.err = Panic
             THEN Aborted(Panic, c, db, sq, n, {"Authenticate", "Decrypt"})
             ELSE IF d.err # Nil
             THEN Outcome(StatusInternalServerError, d.err, d.c, db, sq, n,
                          {"Authenticate", "Decrypt"}, d.err)
             ELSE Outcome(StatusOK, "", d.c, db, sq, n,
                          {"Authenticate", "Decrypt"}, d.err)
        ELSE Outcome(StatusOK, "", c, db, sq, n, {}, NotCalled)

\* the error of cNew.Encrypt(password) is dropped
PostHandlerByName(db, sq, n, body, auth, fail) ==
    LET cNew == Decode(body)
        g == GetByName(db, cNew.Name)
        n1 == n + 1
        hashed == [cNew EXCEPT !.PasswordHash = HashPassword(auth.password, n1)]
        e == Encrypt(hashed, auth.password, n1, fail)
        plain == InsertByName(db, cNew)
        protected == InsertByName(db, e.c)
    IN  IF ~body.ok
        THEN Outcome(StatusBadRequest, "invalid request body", ZeroClipboard,
                     db, sq, n, {}, NotCalled)
        ELSE IF g.found
        THEN Outcome(StatusConflict, "clipboard already exists", cNew,
                     db, sq, n, {}, NotCalled)
        ELSE IF cNew.IsEncrypted
        THEN IF ~auth.ok
             THEN Outcome(StatusUnauthorized, "unauthorized", cNew, db, sq, n,
                          {}, NotCalled)
             ELSE IF fail = "hash"
             THEN Outcome(StatusInternalServerError, ErrRand, cNew, db, sq, n,
                          {"HashPassword"}, NotCalled)
             ELSE IF protected.err
             THEN Outcome(StatusInternalServerError, "UNIQUE constraint failed",
                          e.c, db, sq, e.n, {"HashPassword", "Encrypt"}, e.err)
             ELSE Outcome(StatusOK, "", e.c, protected.db, sq, e.n,
                          {"HashPassword", "Encrypt", "Insert"}, e.err)
        ELSE IF plain.err
        THEN Outcome(StatusInternalServerError, "UNIQUE constraint failed",
                     cNew, db, sq, n, {}, NotCalled)
        ELSE Outcome(StatusOK, "", cNew, plain.db, sq, n, {"Insert"}, NotCalled)

\* a faulty PUT: takes is_encrypted from the request body
PutHandlerByNameTrustsBody(db, sq, n, name, body, auth, fail) ==
    LET g == GetByName(db, name)
        cNew == Decode(body)
        c == [g.c EXCEPT !.DataType = cNew.DataType, !.Data = cNew.Data,
                         !.IsEncrypted = cNew.IsEncrypted]
        e == Encrypt(c, auth.password, n, fail)
    IN  IF ~g.found
        THEN Outcome(StatusNotFound, "clipboard not found", ZeroClipboard,
                     db, sq, n, {}, NotCalled)
        ELSE IF ~body.ok
        THEN Outcome(StatusBadRequest, "invalid request body", g.c,
                     db, sq, n, {}, NotCalled)
        ELSE IF c.IsEncrypted
        THEN IF ~auth.ok \/ ~Authenticate(c, auth.password)
             THEN Outcome(StatusUnauthorized, "unauthorized", c, db, sq, n,
                          {}, NotCalled)
             ELSE Outcome(StatusOK, "", e.c, UpdateByName(db, e.c), sq, e.n,
                          {"Authenticate", "Encrypt", "Update"}, e.err)
        ELSE Outcome(StatusOK, "", c, UpdateByName(db, c), sq, n, {"Update"},
                     NotCalled)

\* the error of c.Encrypt(password) is dropped
PutHandlerByName(db, sq, n, name, body, auth, fail) ==
    LET g == GetByName(db, name)
        cNew == Decode(body)
        c == [g.c EXCEPT !.DataType = cNew.DataType, !.Data = cNew.Data]
        e == Encrypt(c, auth.password, n, fail)
    IN  IF ~g.found
        THEN Outcome(StatusNotFound, "clipboard not found", ZeroClipboard,
                     db, sq, n, {}, NotCalled)
        ELSE IF ~body.ok
        THEN Outcome(StatusBadRequest, "invalid request body", g.c,
                     db, sq, n, {}, NotCalled)
        ELSE IF c.IsEncrypted
        THEN IF ~auth.ok
             THEN Outcome(StatusUnauthorized, "unauthorized", c, db, sq, n,
                          {}, NotCalled)
             ELSE IF ~Authenticate(c, auth.password)
             THEN Outcome(StatusUnauthorized, "unauthorized", c, db, sq, n,
                          {"Authenticate"}, NotCalled)
             ELSE Outcome(StatusOK, "", e.c, UpdateByName(db, e.c), sq, e.n,
                          {"Authenticate", "Encrypt", "Update"}, e.err)
        ELSE Outcome(StatusOK, "", c, UpdateByName(db, c), sq, n, {"Update"},
                     NotCalled)

DeleteHandlerByName(db, sq, n, name, auth) ==
    LET g == GetByName(db, name)
        c == g.c
    IN  IF ~g.found
        THEN Outcome(StatusNotFound, "clipboard not found", ZeroClipboard,
                     db, sq, n, {}, NotCalled)
        ELSE IF c.IsEncrypted /\ ~auth.ok
        THEN Outcome(StatusUnauthorized, "unauthorized", c, db, sq, n,
                     {}, NotCalled)
        ELSE IF c.IsEncrypted /\ ~Authenticate(c, auth.password)
        THEN Outcome(StatusUnauthorized, "unauthorized", c, db, sq, n,
                     {"Authenticate"}, NotCalled)
        ELSE Outcome(StatusNoContent, "", c, DeleteByName(db, name), sq, n,
                     IF c.IsEncrypted THEN {"Authenticate", "Delete"}
                     ELSE {"Delete"}, NotCalled)

----------------------------------------------------------------------------
(* The server: one action per handler and revision *)

EmptyTable == [k \in {} |-> NullText]

\* hist after a request: a successful POST starts the record's history, a
\* successful PUT adds to it, a successful DELETE ends it
Sealed(r) == "Encrypt" \in r.calls /\ r.cerr = Nil
Recorded(op, key, auth, body, r) ==
    IF op = "POST" /\ r.status = StatusOK
    THEN (key :> [data |-> Text(body.Data),
                  password |-> IF body.IsEncrypted THEN auth.password ELSE "",
                  nonces |-> IF Sealed(r) THEN <<r.c.Nonce>> ELSE <<>>]) @@ hist
    ELSE IF op = "PUT" /\ r.status = StatusOK /\ key \in DOMAIN hist
    THEN [hist EXCEPT ![key] =
            [@ EXCEPT !.data = Text(body.Data),
                      !.nonces = IF Sealed(r) THEN Append(@, r.c.Nonce) ELSE @]]
    ELSE IF op = "DELETE" /\ r.status = StatusNoContent
    THEN [k \in DOMAIN hist \ {key} |-> hist[k]]
    ELSE hist

\* the server after a request: the store as the handler left it, the response
Respond(op, key, auth, body, r) ==
    /\ clipboards' = r.db
    /\ seq' = r.seq
    /\ rnd' = r.n
    /\ last' = [op |-> op, key |-> key, auth |-> auth, body |-> Logged(body),
                status |-> r.status, msg |-> r.msg, json |-> r.json,
                c |-> r.c, calls |-> r.calls, cerr |-> r.cerr]
    /\ hist' = Recorded(op, key, auth, body, r)
    /\ issued' = IF "Insert" \in r.calls /\ build = "id"
                 THEN issued \cup {r.c.Id} ELSE issued
    /\ UNCHANGED <<build, crec, clog>>

Handle(op, key, auth, body, r) ==
    /\ r.n <= MaxRand
    /\ r.seq <= FirstSeq + MaxInserts
    /\ Respond(op, key, auth, body, r)
    /\ UNCHANGED pending

\* A request for a key that names no row is answered before its password or
\* body is read: one such request stands for all of them.
AuthsFor(k) == IF k \in DOMAIN clipboards THEN Auths ELSE {NoAuth}
BodiesFor(k) == IF k \in DOMAIN clipboards THEN Bodies({0}, {""}) ELSE {BadBody}

GetId ==
    /\ build = "id"
    /\ \E id \in UrlIds : \E auth \in AuthsFor(id.val) :
          Handle("GET", id.val, auth, BadBody,
                 GetHandler(clipboards, seq, rnd, id, auth))

PostId ==
    /\ build = "id"
    /\ \E body \in Bodies({0, FirstSeq + 1}, Names), auth \in Auths :
       \E fail \in PostFailuresOf(auth, body) :
          LET r == PostHandler(clipboards, seq, rnd, body, auth, fail)
          IN  Handle("POST", IF r.status = StatusOK THEN r.seq ELSE body.Id,
                     auth, body, r)

PutId ==
    /\ build = "id"
    /\ \E id \in UrlIds : \E body \in BodiesFor(id.val), auth \in AuthsFor(id.val) :
       \E fail \in FailuresOf(auth, body) \ {"hash"} :
          Handle("PUT", id.val, auth, body,
                 PutHandler(clipboards, seq, rnd, id, body, auth, fail))

DeleteId ==
    /\ build = "id"
    /\ \E id \in UrlIds : \E auth \in AuthsFor(id.val) :
          Handle("DELETE", id.val, auth, BadBody,
                 DeleteHandler(clipboards, seq, rnd, id, auth))

GetName ==
    /\ build = "name"
    /\ \E name \in Names : \E auth \in AuthsFor(name) :
          Handle("GET", name, auth, BadBody,
                 GetHandlerByName(clipboards, seq, rnd, name, auth))

PostName ==
    /\ build = "name"
    /\ \E body \in Bodies({0}, Names), auth \in Auths :
       \E fail \in PostFailuresOf(auth, body) :
          Handle("POST", body.Name, auth, body,
                 PostHandlerByName(clipboards, seq, rnd, body, auth, fail))

PutName ==
    /\ build = "name"
    /\ \E name \in Names : \E body \in BodiesFor(name), auth \in AuthsFor(name) :
       \E fail \in FailuresOf(auth, body) \ {"hash"} :
          Handle("PUT", name, auth, body,
                 PutHandlerByName(clipboards, seq, rnd, name, body, auth, fail))

DeleteName ==
    /\ build = "name"
    /\ \E name \in Names : \E auth \in AuthsFor(name) :
          Handle("DELETE", name, auth, BadBody,
                 DeleteHandlerByName(clipboards, seq, rnd, name, auth))

\* no PUT handler is between its Get and its Update
NoPending == [active |-> FALSE]

NoSealed == [valid |-> FALSE, c |-> ZeroClipboard, M |-> "", P |-> ""]
NoLog ==
    [op |-> "none", password |-> "", err |-> Nil, pre |-> ZeroClipboard,
     sealed |-> NoSealed]

Init ==
    /\ build \in {"id", "name"}
    /\ clipboards = EmptyTable
    /\ seq = FirstSeq
    /\ rnd = 0
    /\ last = [op |-> "none", key |-> IF build = "id" THEN 0 ELSE "",
               auth |-> NoAuth, body |-> Logged(BadBody), status |-> 0, msg |-> "",
               json |-> Marshal(ZeroClipboard), c |-> ZeroClipboard,
               calls |-> {}, cerr |-> NotCalled]
    /\ hist = EmptyTable
    /\ issued = {}
    /\ pending = NoPending
    /\ crec = ZeroClipboard
    /\ clog = NoLog

Next ==
    \/ GetId
    \/ PostId
    \/ PutId
    \/ DeleteId
    \/ GetName
    \/ PostName
    \/ PutName
    \/ DeleteName

Spec == Init /\ [][Next]_vars

\* The table is a file outside the server.  Corrupt: the stored ciphertext,
\* nonce or salt of a protected row is altered there (a flipped bit), to
\* bytes that no Encrypt call produced.
Altered(row, column) ==
    IF column = "data" THEN [row EXCEPT !.data = EncodeData(Garbage)]
    ELSE IF column = "nonce"
    THEN [row EXCEPT !.nonce = Column(EncodeToString(RandBytes(0, NonceSize)))]
    ELSE [row EXCEPT !.salt = Column(EncodeToString(RandBytes(0, SaltLen)))]

Corrupt ==
    /\ \E k \in DOMAIN clipboards, column \in {"data", "nonce", "salt"} :
          /\ clipboards[k].is_encrypted
          /\ clipboards[k].data.kind = "b64"
          /\ clipboards[k].data.ct.sealed
          /\ clipboards[k].nonce.String.raw.id # 0
          /\ clipboards[k].salt.String.raw.id # 0
          /\ clipboards' = [clipboards EXCEPT ![k] = Altered(@, column)]
    /\ UNCHANGED <<build, seq, rnd, last, hist, issued, pending, crec, clog>>

NextTamper ==
    \/ Next
    \/ Corrupt

SpecTamper == Init /\ [][NextTamper]_vars

\* Requests run concurrently, one goroutine each, and a handler's Get and
\* Update are two statements with no transaction around them.  ConcPutGet:
\* a PUT handler runs up to its call of Update (Get, Decode, Authenticate,
\* Encrypt).  ConcPutUpdate: it calls Update and answers.  POST and DELETE
\* requests run in between.
ConcPutGet ==
    /\ ~pending.active
    /\ \E k \in DOMAIN clipboards, auth \in Auths,
          body \in Bodies({0}, {""}) \ {BadBody} :
          LET r == IF build = "id"
                   THEN PutHandler(clipboards, seq, rnd,
                                   [num |-> TRUE, val |-> k], body, auth, "none")
                   ELSE PutHandlerByName(clipboards, seq, rnd, k, body, auth,
                                         "none")
          IN  /\ "Update" \in r.calls
              /\ r.n <= MaxRand
              /\ rnd' = r.n
              /\ pending' = [active |-> TRUE, key |-> k, auth |-> auth,
                             body |-> body, r |-> r]
    /\ UNCHANGED <<build, clipboards, seq, last, hist, issued, crec, clog>>

ConcPutUpdate ==
    /\ pending.active
    /\ LET db == IF build = "id" THEN Update(clipboards, pending.r.c)
                 ELSE UpdateByName(clipboards, pending.r.c)
       IN  Respond("PUT", pending.key, pending.auth, pending.body,
                   [pending.r EXCEPT !.db = db, !.seq = seq, !.n = rnd])
    /\ pending' = NoPending

NextConc ==
    \/ ConcPutGet
    \/ ConcPutUpdate
    \/ PostId
    \/ DeleteId
    \/ PostName
    \/ DeleteName

SpecConc == Init /\ [][NextConc]_vars

\* The id-keyed server under creation and deletion: POST, PUT and DELETE
\* requests whose encryption succeeds, one password, up to MaxIds inserts.
IdsUrlIds == {[num |-> TRUE, val |-> FirstSeq + i] : i \in 1..MaxIds}
IdsAuths == {NoAuth, [ok |-> TRUE, password |-> "p1"]}
\* the ids request bodies carry: none, the first one assigned, the second
IdsBodyIds == {0, FirstSeq + 1, FirstSeq + 2}
IdsHandle(op, key, auth, body, r) ==
    /\ r.n <= MaxRand
    /\ r.seq <= FirstSeq + MaxIds
    /\ Respond(op, key, auth, body, r)
    /\ UNCHANGED pending

IdsPost ==
    \E body \in Bodies(IdsBodyIds, Names), auth \in IdsAuths :
        LET r == PostHandler(clipboards, seq, rnd, body, auth, "none")
        IN  IdsHandle("POST", IF r.status = StatusOK THEN r.seq ELSE body.Id,
                      auth, body, r)

IdsPut ==
    \E id \in IdsUrlIds, body \in Bodies(IdsBodyIds, {""}),
       auth \in IdsAuths :
        /\ id.val \in DOMAIN clipboards
        /\ IdsHandle("PUT", id.val, auth, body,
                     PutHandler(clipboards, seq, rnd, id, body, auth, "none"))

IdsDelete ==
    \E id \in IdsUrlIds, auth \in IdsAuths :
        /\ id.val \in DOMAIN clipboards
        /\ IdsHandle("DELETE", id.val, auth, BadBody,
                     DeleteHandler(clipboards, seq, rnd, id, auth))

InitIds ==
    /\ Init
    /\ build = "id"

NextIds ==
    \/ IdsPost
    \/ IdsPut
    \/ IdsDelete

SpecIds == InitIds /\ [][NextIds]_vars

----------------------------------------------------------------------------
(* The crypto bench: Encrypt and Decrypt applied to one Clipboard, in the   *)
(* order the handlers apply them                                            *)

\* POST: cNew.PasswordHash, err = clipboard.HashPassword(password)
CHashPassword ==
    /\ crec.IsEncrypted
    /\ crec.PasswordHash = EmptyHash
    /\ rnd + 1 <= MaxRand
    /\ \E P \in Passwords :
          /\ crec' = [crec EXCEPT !.PasswordHash = HashPassword(P, rnd + 1)]
          /\ clog' = [clog EXCEPT !.op = "HashPassword", !.password = P,
                                  !.err = Nil, !.pre = crec]
    /\ rnd' = rnd + 1
    /\ UNCHANGED <<build, clipboards, seq, last, hist, issued, pending>>

\* PUT: c.Data = cNew.Data, on a record read from a protected row
CSetData ==
    /\ crec.IsEncrypted
    /\ crec.Data.kind = "b64"
    /\ \E M \in Plaintexts :
          /\ crec' = [crec EXCEPT !.Data = Text(M)]
          /\ clog' = [clog EXCEPT !.op = "SetData", !.password = "",
                                  !.err = Nil, !.pre = crec]
    /\ UNCHANGED <<build, clipboards, seq, rnd, last, hist, issued, pending>>

\* POST, PUT: c.Encrypt(password), on a record whose Data is a plain text
CEncrypt ==
    /\ crec.PasswordHash # EmptyHash
    /\ crec.Data.kind = "text"
    /\ \E P \in Passwords, fail \in FailModes \ {"hash"} :
          LET e == Encrypt(crec, P, rnd, fail)
          IN  /\ e.n <= MaxRand
              /\ crec' = e.c
              /\ rnd' = e.n
              /\ clog' = [op |-> "Encrypt", password |-> P, err |-> e.err,
                          pre |-> crec,
                          sealed |-> IF e.err = Nil
                                     THEN [valid |-> TRUE, c |-> e.c,
                                           M |-> crec.Data.txt, P |-> P]
                                     ELSE clog.sealed]
    /\ UNCHANGED <<build, clipboards, seq, last, hist, issued, pending>>

\* GET: c.Decrypt(password)
CDecrypt ==
    /\ \E P \in Passwords :
          LET d == Decrypt(crec, P)
          IN  /\ crec' = d.c
              /\ clog' = [clog EXCEPT !.op = "Decrypt", !.password = P,
                                      !.err = d.err, !.pre = crec]
    /\ UNCHANGED <<build, clipboards, seq, rnd, last, hist, issued, pending>>

InitCrypto ==
    /\ build = "id"
    /\ clipboards = EmptyTable
    /\ seq = FirstSeq
    /\ rnd = 0
    /\ last = [op |-> "none", key |-> 0,
               auth |-> NoAuth, body |-> Logged(BadBody), status |-> 0, msg |-> "",
               json |-> Marshal(ZeroClipboard), c |-> ZeroClipboard,
               calls |-> {}, cerr |-> NotCalled]
    /\ hist = EmptyTable
    /\ issued = {}
    /\ pending = NoPending
    /\ crec \in {Decode(b) : b \in Bodies({0}, Names) \ {BadBody}}
    /\ clog = NoLog

NextCrypto ==
    \/ CHashPassword
    \/ CSetData
    \/ CEncrypt
    \/ CDecrypt

SpecCrypto == InitCrypto /\ [][NextCrypto]_vars

----------------------------------------------------------------------------
(* The hash bench: HashPassword and Authenticate applied to one Clipboard   *)

\* a password of BcryptMaxLen bytes, and the passwords the bench draws from
Password72 ==
    "0123456789abcdef0123456789abcdef0123456789abcdef0123456789abcdef01234567"
HashInputs ==
    {"", "p1", "p2", Password72, Password72 \o "x", Password72 \o "y"}

HashNoLog ==
    [op |-> "none", password |-> "", err |-> Nil, pre |-> ZeroClipboard,
     sealed |-> NoSealed, hashed |-> "", ok |-> FALSE]

\* POST: cNew.PasswordHash, err = clipboard.HashPassword(password).  A
\* password longer than BcryptMaxLen bytes is cut by the bcrypt package
\* before v0.5.0 and refused (ErrPasswordTooLong) since.
HHashPassword ==
    /\ rnd + 1 <= MaxRand
    /\ \E P \in HashInputs, refuses \in BOOLEAN :
          IF refuses /\ Len(P) > BcryptMaxLen
          THEN /\ crec' = [crec EXCEPT !.PasswordHash = EmptyHash]
               /\ clog' = [HashNoLog EXCEPT !.op = "HashPassword",
                                            !.password = P,
                                            !.err = "bcrypt: password length exceeds 72 bytes",
                                            !.pre = crec]
               /\ rnd' = rnd
          ELSE /\ crec' = [crec EXCEPT !.PasswordHash = HashPassword(P, rnd + 1)]
               /\ clog' = [HashNoLog EXCEPT !.op = "HashPassword",
                                            !.password = P, !.pre = crec,
                                            !.hashed = P]
               /\ rnd' = rnd + 1
    /\ UNCHANGED <<build, clipboards, seq, last, hist, issued, pending>>

\* GET, PUT, DELETE: c.Authenticate(password)
HAuthenticate ==
    /\ \E P \in HashInputs :
          clog' = [clog EXCEPT !.op = "Authenticate", !.password = P,
                               !.pre = crec, !.ok = Authenticate(crec, P)]
    /\ UNCHANGED <<build, clipboards, seq, rnd, last, hist, issued, pending, crec>>

InitHash ==
    /\ InitCrypto
    /\ crec.IsEncrypted
    /\ crec.Data = Text("a")

NextHash ==
    \/ HHashPassword
    \/ HAuthenticate

SpecHash == InitHash /\ [][NextHash]_vars

----------------------------------------------------------------------------
(* Properties of Encrypt and Decrypt (SpecCrypto) *)

\* the Decrypt call just made was on the record the last successful
\* Encrypt produced (same Data, Salt and Nonce)
DecryptOfSealed ==
    /\ clog.op = "Decrypt"
    /\ clog.sealed.valid
    /\ clog.pre = clog.sealed.c

\* C1: Decrypt(P) on the record that Encrypt(P) produced from Data M
\* succeeds and leaves Data = M and IsEncrypted = false.
RoundTrip ==
    (DecryptOfSealed /\ clog.password = clog.sealed.P)
        => /\ clog.err = Nil
           /\ crec.Data = Text(clog.sealed.M)
           /\ ~crec.IsEncrypted

RoundTripWitness ==
    /\ DecryptOfSealed
    /\ clog.password = clog.sealed.P
    /\ clog.pre.Data.kind = "b64"
    /\ crec.Data = Text("a")

RecordInvariants ==
    (clog.op \in {"Encrypt", "Decrypt"} /\ clog.err = Nil)
        => /\ ~crec.IsEncrypted <=>
                (/\ crec.Salt = EmptyString
                 /\ crec.Nonce = EmptyString
                 /\ crec.PasswordHash = EmptyHash)
           /\ crec.IsEncrypted =>
                (/\ crec.Salt # EmptyString
                 /\ crec.Nonce # EmptyString
                 /\ crec.PasswordHash # EmptyHash)

----------------------------------------------------------------------------
(* Properties of the server (Spec) *)

\* the request just handled addressed the stored row k
Addressed(k) ==
    /\ last'.op \in {"GET", "PUT", "DELETE"}
    /\ last'.key = k

\* the request just handled carried no password, or not the password the
\* record was created with
Denied(k) == ~last'.auth.ok \/ last'.auth.password # hist[k].password

\* what the gate leaves of such a request: no Decrypt, no Encrypt, no
\* clipboard in the response, the table as it was
ShutOut ==
    /\ "Decrypt" \notin last'.calls
    /\ "Encrypt" \notin last'.calls
    /\ last'.json = Marshal(ZeroClipboard)
    /\ clipboards' = clipboards

\* C3 (as stated): a GET, PUT or DELETE on a row with is_encrypted = true
\* that carries no password or a wrong one is answered 401, calls neither
\* Decrypt nor Encrypt, returns no clipboard and leaves the table unchanged.
AccessGateAlways401 ==
    [][\A k \in DOMAIN clipboards :
          (clipboards[k].is_encrypted /\ Addressed(k) /\ Denied(k))
              => (last'.status = StatusUnauthorized /\ ShutOut)]_vars

\* C3 (amended): such a request is answered 401, or 400 when it is a PUT
\* whose body does not decode (the body is decoded before the password is
\* looked at); either way it calls neither Decrypt nor Encrypt, returns no
\* clipboard and leaves the table unchanged.
AccessGate ==
    [][\A k \in DOMAIN clipboards :
          (clipboards[k].is_encrypted /\ Addressed(k) /\ Denied(k))
              => /\ \/ last'.status = StatusUnauthorized
                    \/ /\ last'.op = "PUT"
                       /\ ~last'.body.ok
                       /\ last'.status = StatusBadRequest
                 /\ ShutOut]_vars

AccessGateWitness ==
    /\ last.op \in {"GET", "PUT", "DELETE"}
    /\ last.key \in DOMAIN clipboards
    /\ clipboards[last.key].is_encrypted
    /\ last.auth.ok
    /\ last.auth.password # hist[last.key].password
    /\ last.status = StatusUnauthorized
    /\ last.calls = {"Authenticate"}

\* the nonces in s are pairwise different
AllDifferent(s) == \A i, j \in 1..Len(s) : i # j => s[i] # s[j]

\* C4 (I3): a row's salt, once generated, never changes, and the nonce of
\* each successful Encrypt call on a record differs from the nonce of every
\* earlier Encrypt call on it (and is the nonce the row then stores).
SaltStableNonceFresh ==
    [][\A k \in DOMAIN clipboards \cap DOMAIN clipboards' :
          /\ clipboards[k].salt.String # EmptyString
                => clipboards'[k].salt = clipboards[k].salt
          /\ AllDifferent(hist'[k].nonces)
          /\ Len(hist'[k].nonces) > Len(hist[k].nonces)
                => clipboards'[k].nonce.String
                      = hist'[k].nonces[Len(hist'[k].nonces)]]_vars

SaltStableNonceFreshWitness ==
    /\ last.op = "PUT"
    /\ last.status = StatusOK
    /\ last.key \in DOMAIN clipboards
    /\ clipboards[last.key].salt.String # EmptyString
    /\ Len(hist[last.key].nonces) >= 2

\* a row with is_encrypted = true holds ciphertext that Decrypt opens, under
\* the row's salt and nonce and the password whose hash the row holds, to the
\* data of the latest successful POST or PUT on the row; a GET with that
\* password returns that data
Consistent(k) ==
    LET c == Scanned(0, clipboards[k])
        d == Decrypt(c, hist[k].password)
    IN  /\ clipboards[k].data.kind = "b64"
        /\ Authenticate(c, hist[k].password)
        /\ d.err = Nil
        /\ d.c.Data = hist[k].data
        /\ (/\ last.op = "GET"
            /\ last.key = k
            /\ last.auth.ok
            /\ last.auth.password = hist[k].password)
              => (last.status = StatusOK /\ last.json.Data = hist[k].data)

\* C6: in the id-keyed server (routes.go with the id-keyed store, the code
\* the claim is about) every row with is_encrypted = true is consistent in
\* every reachable state of the table.
StoredConsistent ==
    build = "id" =>
        \A k \in DOMAIN clipboards : clipboards[k].is_encrypted => Consistent(k)

StoredConsistentWitness ==
    /\ build = "id"
    /\ last.op = "GET"
    /\ last.status = StatusOK
    /\ last.key \in DOMAIN clipboards
    /\ clipboards[last.key].is_encrypted
    /\ Len(hist[last.key].nonces) >= 2
    /\ last.json.Data = hist[last.key].data


\* C7: between its POST and its DELETE a row's is_encrypted flag and
\* password hash never change, whatever a PUT carries.
NoRekey ==
    [][\A k \in DOMAIN clipboards \cap DOMAIN clipboards' :
          /\ clipboards'[k].is_encrypted = clipboards[k].is_encrypted
          /\ clipboards'[k].password_hash.String
                = clipboards[k].password_hash.String]_vars

NoRekeyWitness ==
    /\ last.op = "PUT"
    /\ last.status = StatusOK
    /\ last.key \in DOMAIN clipboards
    /\ clipboards[last.key].is_encrypted
    /\ ~last.body.IsEncrypted
    /\ clipboards[last.key].data.kind = "b64"

\* C8: a failed tag verification in Decrypt (corrupted ciphertext, nonce or
\* salt) is reported like a failed credential check: 401 "unauthorized".
AuthFailuresAlike ==
    ("Decrypt" \in last.calls /\ last.cerr = ErrOpen)
        => (last.status = StatusUnauthorized /\ last.msg = "unauthorized")

\* C9: when Encrypt fails the handler reports an error and neither inserts
\* nor updates, so no row flagged is_encrypted holds plain text or an empty
\* salt or nonce.
EncryptFailureFatal ==
    /\ ("Encrypt" \in last.calls /\ last.cerr # Nil)
          => /\ last.status = StatusInternalServerError
             /\ "Insert" \notin last.calls
             /\ "Update" \notin last.calls
    /\ \A k \in DOMAIN clipboards :
          clipboards[k].is_encrypted
              => /\ clipboards[k].data.kind = "b64"
                 /\ clipboards[k].salt.String # EmptyString
                 /\ clipboards[k].nonce.String # EmptyString

\* C10: Decrypt on a record whose Salt is empty fails with the derivation
\* error of deriveKey.
EmptySaltRejected ==
    ("Decrypt" \in last.calls /\ last.c.Salt = EmptyString)
        => last.cerr = ErrScrypt

\* the response to a GET of the row k that carries no password
LaterGet(k) ==
    IF build = "id"
    THEN GetHandler(clipboards', seq', rnd', [num |-> TRUE, val |-> k], NoAuth)
    ELSE GetHandlerByName(clipboards', seq', rnd', k, NoAuth)

\* C14: a GET leaves the table (and its id sequence) as it was; after a GET
\* that authenticated and decrypted a protected row, the row still has
\* is_encrypted = true and its ciphertext, salt, nonce and password hash,
\* the plain text is in the response only, and a GET of the row without the
\* password is refused.
GetReadOnly ==
    [][last'.op = "GET" =>
        /\ clipboards' = clipboards
        /\ seq' = seq
        /\ \A k \in DOMAIN clipboards :
              (last'.key = k /\ "Decrypt" \in last'.calls
                            /\ last'.status = StatusOK)
                  => /\ clipboards'[k].is_encrypted
                     /\ clipboards'[k].data.kind = "b64"
                     /\ clipboards'[k].salt = clipboards[k].salt
                     /\ clipboards'[k].nonce = clipboards[k].nonce
                     /\ clipboards'[k].password_hash = clipboards[k].password_hash
                     /\ ~last'.json.IsEncrypted
                     /\ last'.json.Data.kind = "text"
                     /\ LaterGet(k).status = StatusUnauthorized
                     /\ LaterGet(k).json = Marshal(ZeroClipboard)]_vars

GetReadOnlyWitness ==
    /\ last.op = "GET"
    /\ last.status = StatusOK
    /\ "Decrypt" \in last.calls
    /\ last.json.Data = Text("a")
    /\ ~last.json.IsEncrypted
    /\ last.key \in DOMAIN clipboards
    /\ clipboards[last.key].is_encrypted
    /\ clipboards[last.key].data.kind = "b64"

----------------------------------------------------------------------------
(* Properties of the id-keyed store (SpecIds) *)

\* C11: in the id-keyed server the id of a record created by a POST is the
\* one Insert assigned (the response shows it, whatever id the body carried),
\* it is the id of no record created before, stored or deleted, and a PUT
\* neither adds, removes nor renumbers a row.
IdsStoreAssigned ==
    [][/\ (last'.op = "POST" /\ last'.status = StatusOK)
          => \E id \in DOMAIN clipboards' :
                /\ id \notin issued
                /\ issued' = issued \cup {id}
                /\ id = seq'
                /\ last'.json.Id = id
                /\ DOMAIN clipboards' = DOMAIN clipboards \cup {id}
                /\ \A k \in DOMAIN clipboards : clipboards'[k] = clipboards[k]
       /\ last'.op = "PUT"
          => /\ DOMAIN clipboards' = DOMAIN clipboards
             /\ \A k \in DOMAIN clipboards \ {last'.key} :
                   clipboards'[k] = clipboards[k]
             /\ last'.status = StatusOK => last'.json.Id = last'.key
       /\ DOMAIN clipboards' \subseteq issued']_vars

\* a second record is created after the first was deleted, by a POST whose
\* body carries the id of the first
IdsStoreAssignedWitness ==
    /\ last.op = "POST"
    /\ last.status = StatusOK
    /\ last.body.Id = FirstSeq + 1
    /\ last.json.Id = FirstSeq + 2
    /\ DOMAIN clipboards = {FirstSeq + 2}
    /\ issued = {FirstSeq + 1, FirstSeq + 2}

----------------------------------------------------------------------------
(* Properties of HashPassword and Authenticate (SpecHash) *)

\* C12: Authenticate(P') on a record whose PasswordHash is HashPassword(P)
\* returns true when P' = P and false for every P' # P.
HashVerification ==
    (clog.op = "Authenticate" /\ crec.PasswordHash # EmptyHash)
        => (clog.ok <=> clog.password = clog.hashed)

----------------------------------------------------------------------------
(* Properties of concurrent requests (SpecConc) *)

\* C13: when a PUT has answered with success, the row it addressed exists
\* and holds the data the PUT wrote, and it is still the record its latest
\* POST created: protected exactly if that POST asked for it, under the
\* password of that POST.
PutPersists ==
    (last.op = "PUT" /\ last.status = StatusOK)
        => /\ last.key \in DOMAIN clipboards
           /\ clipboards[last.key].data = last.c.Data
           /\ clipboards[last.key].is_encrypted
                 <=> hist[last.key].password # ""
           /\ clipboards[last.key].is_encrypted
                 => Authenticate(Scanned(0, clipboards[last.key]),
                                 hist[last.key].password)

====
